---- MODULE Spec2Model ----
(***************************************************************************)
(* Model of examples/pico_spi_pio_sd_card.rs: the scripted SD-card session *)
(* of main (card size, volume, root directory, listing, read of O.TST,     *)
(* write of O.TST, free) and the LED status encoder blink_signals /        *)
(* blink_signals_loop.  One step of the model is one SD-card/filesystem    *)
(* call of main, or one element of a signal array driven onto the LED.     *)
(* The card's file O.TST persists across resets of the board.              *)
(***************************************************************************)
EXTENDS Integers, Sequences, FiniteSets, TLC

(* ---------- bounds of the model ---------- *)
MaxFileLen == 3      \* longest O.TST found on the card at power-up
MaxRuns == 2         \* number of power-ups (resets) explored

(* ---------- program constants ---------- *)
BufLen == 32         \* let mut buf = [0u8; 32]

BLINK_OK_LONG == <<8>>
BLINK_OK_SHORT_LONG == <<1, 0, 6, 0>>
BLINK_OK_SHORT_SHORT_LONG == <<1, 0, 1, 0, 6, 0>>
BLINK_ERR_2_SHORT == <<1, 0, 1, 0>>
\* variant: the volume fault shares the two-pulse pattern
BLINK_ERR_3_SHORT_Dup == <<1, 0, 1, 0>>
BLINK_ERR_3_SHORT == <<1, 0, 1, 0, 1, 0>>
BLINK_ERR_4_SHORT == <<1, 0, 1, 0, 1, 0, 1, 0>>
BLINK_ERR_5_SHORT == <<1, 0, 1, 0, 1, 0, 1, 0, 1, 0>>

\* variant: a second byte other than 0x1E is written
WRITE_DATA_Wrong == <<66, 31>>

\* b"\x42\x1E", the bytes main writes to O.TST
WRITE_DATA == <<66, 30>>

\* byte values a file found on the card may hold (0x42, 0x1E and another)
Bytes == {0, 30, 66}

RECURSIVE SeqsUpTo(_)
SeqsUpTo(n) ==
    IF n = 0 THEN {<<>>}
    ELSE LET S == SeqsUpTo(n - 1)
         IN S \cup {Append(s, b) : s \in {t \in S : Len(t) = n - 1}, b \in Bytes}

\* what the card may hold for O.TST at power-up: no such file, or any content
Absent == [present |-> FALSE, data |-> <<>>]
Present(d) == [present |-> TRUE, data |-> d]
InitFiles == {Absent} \cup {Present(d) : d \in SeqsUpTo(MaxFileLen)}

\* the SD-card/filesystem call sites of main, in program order
Ops == <<"num_bytes", "open_volume", "open_root_dir", "iterate_dir",
         "open_ro", "read", "close_ro", "open_rw", "write", "close_rw", "free">>

VARIABLES
    pc,              \* position of main
    led_pin,         \* level of the LED pin: 1 high, 0 low
    sig,             \* signal array of the running blink_signals call
    idx,             \* index of the next element of sig
    ret,             \* position blink_signals returns to
    lsig,            \* signal array of blink_signals_loop (<<>> outside it)
    pulses,          \* <<level, units>> driven by the running blink_signals call
    lastPattern,     \* pulses of the last completed blink_signals call
    longCount,       \* completed calls in this run that showed one long pulse
    successful_read, \* main's flag
    buf,             \* main's read buffer
    read_count,      \* result of volume_mgr.read
    file,            \* O.TST as stored on the card: [present, data]
    pending,         \* bytes written through the open read-write handle
    roHandle,        \* "none" | "open" | "closed": handle of the ReadOnly open
    rwHandle,        \* same for the ReadWriteCreateOrTruncate open
    opLog,           \* SD-card/filesystem calls made in this run, in order
    failed,          \* calls of this run that returned Err
    faults,          \* calls of this run that hit a device fault
    run,             \* number of the current power-up
    prevWrote,       \* the previous run completed its write stage
    prevPattern,     \* pattern the previous run was repeating when reset
    prevFailed       \* calls of the previous run that returned Err

vars == <<pc, led_pin, sig, idx, ret, lsig, pulses, lastPattern, longCount,
          successful_read, buf, read_count, file, pending, roHandle, rwHandle,
          opLog, failed, faults, run, prevWrote, prevPattern, prevFailed>>

blinkVars == <<led_pin, sig, idx, ret, lsig, pulses, lastPattern, longCount>>
fsVars == <<file, pending, roHandle, rwHandle>>
readVars == <<successful_read, buf, read_count>>
runVars == <<run, prevWrote, prevPattern, prevFailed>>

ZeroBuf == [i \in 1..BufLen |-> 0]

Min(a, b) == IF a < b THEN a ELSE b

Range(s) == {s[i] : i \in DOMAIN s}

(* ---------- the filesystem driver, as the session sees it ---------- *)

\* open_file_in_dir(dir, "O.TST", Mode::ReadOnly): NotFound if absent
RoOpenFinds(f) == f.present

\* read(file, &mut buf): sequential, stops at end of file or a full buffer
ReadCount(f, n) == Min(Len(f.data), n)
ReadInto(f, b) ==
    [i \in 1..Len(b) |-> IF i <= ReadCount(f, Len(b)) THEN f.data[i] ELSE b[i]]

\* open_file_in_dir(dir, "O.TST", Mode::ReadWriteCreateOrTruncate)
CreateOrTruncate(f) == Present(<<>>)

\* a second open of the path while a handle on it is open fails (AlreadyOpen)
AlreadyOpen(ro, rw) == ro = "open" \/ rw = "open"

\* close_file of a written handle flushes the new size to the directory entry
Flush(f, p) == Present(f.data \o p)

(* ---------- blink_signals ---------- *)

\* begin blink_signals(pin, delay, s), returning to position r
Call(s, r) ==
    /\ pc' = "blink"
    /\ sig' = s
    /\ idx' = 1
    /\ ret' = r
    /\ pulses' = <<>>
    /\ UNCHANGED <<led_pin, lastPattern, longCount>>

\* level driven for one element of a signal array
Level(bit) == IF bit # 0 THEN 1 ELSE 0
\* units of 100 ms one element lasts
Units(bit) == IF bit > 0 THEN bit ELSE 1

\* one long blink: a single high pulse of BLINK_OK_LONG's length
IsLong(p) == p = <<<<1, 8>>>>

\* number of short (one unit) high pulses of a pattern
RECURSIVE ShortCount(_)
ShortCount(p) ==
    IF p = <<>> THEN 0
    ELSE (IF p[1] = <<1, 1>> THEN 1 ELSE 0) + ShortCount(Tail(p))

\* number of high pulses longer than one unit
RECURSIVE LongerCount(_)
LongerCount(p) ==
    IF p = <<>> THEN 0
    ELSE (IF p[1][1] = 1 /\ p[1][2] > 1 THEN 1 ELSE 0) + LongerCount(Tail(p))

\* body of the for loop: one element of sig
blink_bit ==
    /\ pc = "blink"
    /\ idx <= Len(sig)
    /\ led_pin' = Level(sig[idx])
    /\ pulses' = Append(pulses, <<Level(sig[idx]), Units(sig[idx])>>)
    /\ idx' = idx + 1
    /\ UNCHANGED <<pc, sig, ret, lsig, lastPattern, longCount>>
    /\ UNCHANGED <<fsVars, readVars, runVars, opLog, failed, faults>>

\* variant: the pin is left as the last element of the array drove it
blink_end_NoLow ==
    /\ pc = "blink"
    /\ idx > Len(sig)
    /\ lastPattern' = pulses
    /\ longCount' = longCount + (IF IsLong(pulses) THEN 1 ELSE 0)
    /\ pc' = ret
    /\ sig' = <<>>
    /\ idx' = 0
    /\ ret' = "none"
    /\ pulses' = <<>>
    /\ UNCHANGED <<led_pin, lsig>>
    /\ UNCHANGED <<fsVars, readVars, runVars, opLog, failed, faults>>

\* after the for loop: set_low, delay_ms(500), return
blink_end ==
    /\ pc = "blink"
    /\ idx > Len(sig)
    /\ led_pin' = 0
    /\ lastPattern' = pulses
    /\ longCount' = longCount + (IF IsLong(pulses) THEN 1 ELSE 0)
    /\ pc' = ret
    /\ sig' = <<>>
    /\ idx' = 0
    /\ ret' = "none"
    /\ pulses' = <<>>
    /\ UNCHANGED lsig
    /\ UNCHANGED <<fsVars, readVars, runVars, opLog, failed, faults>>

(* ---------- blink_signals_loop ---------- *)

\* enter blink_signals_loop(pin, timer, s): first blink_signals of the loop
EnterLoop(s) ==
    /\ lsig' = s
    /\ Call(s, "loop_delay")

\* variant: the loop is left after one repetition and main goes on
loop_delay_Return ==
    /\ pc = "loop_delay"
    /\ pc' = IF "open_rw" \in failed THEN "free" ELSE "open_rw"
    /\ lsig' = <<>>
    /\ UNCHANGED <<led_pin, sig, idx, ret, pulses, lastPattern, longCount>>
    /\ UNCHANGED <<fsVars, readVars, runVars, opLog, failed, faults>>

\* delay.delay_ms(1000), then the next iteration of the loop
loop_delay ==
    /\ pc = "loop_delay"
    /\ Call(lsig, "loop_delay")
    /\ UNCHANGED lsig
    /\ UNCHANGED <<fsVars, readVars, runVars, opLog, failed, faults>>

(* ---------- main ---------- *)

\* one SD-card/filesystem call: logged, with its device fault and its result
Record(op, fault, err) ==
    /\ opLog' = Append(opLog, op)
    /\ faults' = IF fault THEN faults \cup {op} ELSE faults
    /\ failed' = IF err THEN failed \cup {op} ELSE failed

\* panic_halt: a failed unwrap() stops main for good
Panic ==
    /\ pc' = "halted"
    /\ UNCHANGED blinkVars

\* match sdcard.num_bytes(): Ok falls through to the long blink
card_size ==
    /\ pc = "card_size"
    /\ \E fault \in BOOLEAN :
        /\ Record("num_bytes", fault, fault)
        /\ IF fault
             THEN EnterLoop(BLINK_ERR_2_SHORT)
             ELSE Call(BLINK_OK_LONG, "open_volume") /\ UNCHANGED lsig
    /\ UNCHANGED <<fsVars, readVars, runVars>>

\* variant: the Err arm of open_volume blinks the card-size pattern
open_volume_WrongSig ==
    /\ pc = "open_volume"
    /\ \E fault \in BOOLEAN :
        /\ Record("open_volume", fault, fault)
        /\ IF fault
             THEN EnterLoop(BLINK_ERR_2_SHORT)
             ELSE Call(BLINK_OK_LONG, "open_root_dir") /\ UNCHANGED lsig
    /\ UNCHANGED <<fsVars, readVars, runVars>>

\* match volume_mgr.open_volume(VolumeIdx(0))
open_volume ==
    /\ pc = "open_volume"
    /\ \E fault \in BOOLEAN :
        /\ Record("open_volume", fault, fault)
        /\ IF fault
             THEN EnterLoop(BLINK_ERR_3_SHORT)
             ELSE Call(BLINK_OK_LONG, "open_root_dir") /\ UNCHANGED lsig
    /\ UNCHANGED <<fsVars, readVars, runVars>>

\* match volume_mgr.open_root_dir(volume.to_raw_volume())
open_root_dir ==
    /\ pc = "open_root_dir"
    /\ \E fault \in BOOLEAN :
        /\ Record("open_root_dir", fault, fault)
        /\ IF fault
             THEN EnterLoop(BLINK_ERR_4_SHORT)
             ELSE Call(BLINK_OK_LONG, "iterate_dir") /\ UNCHANGED lsig
    /\ UNCHANGED <<fsVars, readVars, runVars>>

\* variant: the long blink after the listing is left out
iterate_dir_NoBlink ==
    /\ pc = "iterate_dir"
    /\ \E fault \in BOOLEAN :
        /\ Record("iterate_dir", fault, fault)
        /\ IF fault
             THEN Panic
             ELSE pc' = "open_ro" /\ UNCHANGED blinkVars
    /\ UNCHANGED <<fsVars, readVars, runVars>>

\* volume_mgr.iterate_dir(dir, ..).unwrap()
iterate_dir ==
    /\ pc = "iterate_dir"
    /\ \E fault \in BOOLEAN :
        /\ Record("iterate_dir", fault, fault)
        /\ IF fault
             THEN Panic
             ELSE Call(BLINK_OK_LONG, "open_ro") /\ UNCHANGED lsig
    /\ UNCHANGED <<fsVars, readVars, runVars>>

\* variant: the result of the read-only open is not looked at
open_ro_ReadAnyway ==
    /\ pc = "open_ro"
    /\ \E fault \in BOOLEAN :
        LET err == fault \/ ~RoOpenFinds(file) IN
        /\ Record("open_ro", fault, err)
        /\ pc' = "read"
        /\ roHandle' = IF err THEN roHandle ELSE "open"
        /\ UNCHANGED blinkVars
    /\ UNCHANGED <<file, pending, rwHandle, readVars, runVars>>

\* if let Ok(file) = volume_mgr.open_file_in_dir(dir, "O.TST", Mode::ReadOnly)
open_ro ==
    /\ pc = "open_ro"
    /\ \E fault \in BOOLEAN :
        LET err == fault \/ ~RoOpenFinds(file) IN
        /\ Record("open_ro", fault, err)
        /\ IF err
             THEN /\ Call(BLINK_OK_LONG, "open_rw")
                  /\ UNCHANGED <<lsig, roHandle>>
             ELSE /\ pc' = "read"
                  /\ roHandle' = "open"
                  /\ UNCHANGED blinkVars
    /\ UNCHANGED <<file, pending, rwHandle, readVars, runVars>>

\* let read_count = volume_mgr.read(file, &mut buf).unwrap()
read ==
    /\ pc = "read"
    /\ \E fault \in BOOLEAN :
        /\ Record("read", fault, fault)
        /\ IF fault
             THEN Panic /\ UNCHANGED <<buf, read_count>>
             ELSE /\ pc' = "close_ro"
                  /\ buf' = ReadInto(file, ZeroBuf)
                  /\ read_count' = ReadCount(file, BufLen)
                  /\ UNCHANGED blinkVars
    /\ UNCHANGED <<fsVars, successful_read, runVars>>

\* variant: only the first byte read is compared
ReadMatches_FirstOnly(n, b) == n >= 1 /\ b[1] = 66

\* if read_count >= 2 { if buf[0] == 0x42 && buf[1] == 0x1E { .. } }
ReadMatches(n, b) == n >= 2 /\ b[1] = 66 /\ b[2] = 30

\* variant: the read-only handle is not closed before main goes on
close_ro_NoClose ==
    /\ pc = "close_ro"
    /\ Record("close_ro", FALSE, FALSE)
    /\ successful_read' =
            IF ReadMatches(read_count, buf) THEN TRUE ELSE successful_read
    /\ Call(BLINK_OK_LONG, "open_rw")
    /\ UNCHANGED lsig
    /\ UNCHANGED <<file, pending, roHandle, rwHandle, buf, read_count, runVars>>

\* volume_mgr.close_file(file).unwrap(), then the check of what was read
close_ro ==
    /\ pc = "close_ro"
    /\ \E fault \in BOOLEAN :
        /\ Record("close_ro", fault, fault)
        /\ IF fault
             THEN Panic /\ UNCHANGED <<roHandle, successful_read>>
             ELSE /\ roHandle' = "closed"
                  /\ successful_read' =
                        IF ReadMatches(read_count, buf) THEN TRUE ELSE successful_read
                  /\ Call(BLINK_OK_LONG, "open_rw")
                  /\ UNCHANGED lsig
    /\ UNCHANGED <<file, pending, rwHandle, buf, read_count, runVars>>

\* match volume_mgr.open_file_in_dir(dir, "O.TST", Mode::ReadWriteCreateOrTruncate)
open_rw ==
    /\ pc = "open_rw"
    /\ \E fault \in BOOLEAN :
        LET err == fault \/ AlreadyOpen(roHandle, rwHandle) IN
        /\ Record("open_rw", fault, err)
        /\ IF err
             THEN /\ EnterLoop(BLINK_ERR_5_SHORT)
                  /\ UNCHANGED <<file, pending, rwHandle>>
             ELSE /\ pc' = "write"
                  /\ file' = CreateOrTruncate(file)
                  /\ pending' = <<>>
                  /\ rwHandle' = "open"
                  /\ UNCHANGED blinkVars
    /\ UNCHANGED <<roHandle, readVars, runVars>>

\* variant: the result of write is dropped instead of unwrapped
write_IgnoreErr ==
    /\ pc = "write"
    /\ \E fault \in BOOLEAN :
        /\ Record("write", fault, fault)
        /\ pc' = "close_rw"
        /\ pending' = IF fault THEN pending ELSE pending \o WRITE_DATA
        /\ UNCHANGED blinkVars
    /\ UNCHANGED <<file, roHandle, rwHandle, readVars, runVars>>

\* volume_mgr.write(file, b"\x42\x1E").unwrap()
write ==
    /\ pc = "write"
    /\ \E fault \in BOOLEAN :
        /\ Record("write", fault, fault)
        /\ IF fault
             THEN Panic /\ UNCHANGED pending
             ELSE /\ pc' = "close_rw"
                  /\ pending' = pending \o WRITE_DATA
                  /\ UNCHANGED blinkVars
    /\ UNCHANGED <<file, roHandle, rwHandle, readVars, runVars>>

\* variant: the written handle is not closed before the volume manager is freed
close_rw_NoClose ==
    /\ pc = "close_rw"
    /\ pc' = "free"
    /\ UNCHANGED blinkVars
    /\ UNCHANGED <<fsVars, readVars, runVars, opLog, failed, faults>>

\* volume_mgr.close_file(file).unwrap()
close_rw ==
    /\ pc = "close_rw"
    /\ \E fault \in BOOLEAN :
        /\ Record("close_rw", fault, fault)
        /\ IF fault
             THEN Panic /\ UNCHANGED <<file, pending, rwHandle>>
             ELSE /\ pc' = "free"
                  /\ file' = Flush(file, pending)
                  /\ pending' = <<>>
                  /\ rwHandle' = "closed"
                  /\ UNCHANGED blinkVars
    /\ UNCHANGED <<roHandle, readVars, runVars>>

\* volume_mgr.free(), then the last long blink
free ==
    /\ pc = "free"
    /\ Record("free", FALSE, FALSE)
    /\ Call(BLINK_OK_LONG, "final")
    /\ UNCHANGED lsig
    /\ UNCHANGED <<fsVars, readVars, runVars>>

\* variant: the two patterns of the final loop are exchanged
FinalSig_Swapped(ok) == IF ok THEN BLINK_OK_SHORT_LONG ELSE BLINK_OK_SHORT_SHORT_LONG

\* the pattern of the final loop
FinalSig(ok) == IF ok THEN BLINK_OK_SHORT_SHORT_LONG ELSE BLINK_OK_SHORT_LONG

\* loop { blink_signals(.. FinalSig ..); .. }
final_loop ==
    /\ pc = "final"
    /\ Call(FinalSig(successful_read), "final_delay")
    /\ UNCHANGED lsig
    /\ UNCHANGED <<fsVars, readVars, runVars, opLog, failed, faults>>

\* variant: the final loop ends after one repetition
final_delay_Stop ==
    /\ pc = "final_delay"
    /\ pc' = "halted"
    /\ UNCHANGED blinkVars
    /\ UNCHANGED <<fsVars, readVars, runVars, opLog, failed, faults>>

\* timer.delay_ms(1000) of the final loop
final_delay ==
    /\ pc = "final_delay"
    /\ pc' = "final"
    /\ UNCHANGED blinkVars
    /\ UNCHANGED <<fsVars, readVars, runVars, opLog, failed, faults>>

(* ---------- power-up ---------- *)

\* the write stage of this run has completed (write and close returned Ok)
WriteStageDone == "close_rw" \in Range(opLog) /\ "close_rw" \notin failed

\* state of main when it reaches the first SD-card call, over the card's file f
Boot(f, r, w, p, e) ==
    /\ pc = "card_size"
    /\ led_pin = 0
    /\ sig = <<>>
    /\ idx = 0
    /\ ret = "none"
    /\ lsig = <<>>
    /\ pulses = <<>>
    /\ lastPattern = <<>>
    /\ longCount = 0
    /\ successful_read = FALSE
    /\ buf = ZeroBuf
    /\ read_count = 0
    /\ file = f
    /\ pending = <<>>
    /\ roHandle = "none"
    /\ rwHandle = "none"
    /\ opLog = <<>>
    /\ failed = {}
    /\ faults = {}
    /\ run = r
    /\ prevWrote = w
    /\ prevPattern = p
    /\ prevFailed = e

Init == \E f \in InitFiles : Boot(f, 1, FALSE, <<>>, {})

\* "Reboot the pico!": the board is reset and main starts over on the same card
Reset ==
    /\ run < MaxRuns
    /\ pc' = "card_size"
    /\ led_pin' = 0
    /\ sig' = <<>>
    /\ idx' = 0
    /\ ret' = "none"
    /\ lsig' = <<>>
    /\ pulses' = <<>>
    /\ lastPattern' = <<>>
    /\ longCount' = 0
    /\ successful_read' = FALSE
    /\ buf' = ZeroBuf
    /\ read_count' = 0
    /\ file' = file
    /\ pending' = <<>>
    /\ roHandle' = "none"
    /\ rwHandle' = "none"
    /\ opLog' = <<>>
    /\ failed' = {}
    /\ faults' = {}
    /\ run' = run + 1
    /\ prevWrote' = WriteStageDone
    /\ prevPattern' = IF pc \in {"loop_delay", "final_delay"} THEN lastPattern ELSE <<>>
    /\ prevFailed' = IF pc \in {"loop_delay", "final_delay"} THEN failed ELSE {}

Next ==
    \/ card_size
    \/ open_volume
    \/ open_root_dir
    \/ iterate_dir
    \/ open_ro
    \/ read
    \/ close_ro
    \/ open_rw
    \/ write
    \/ close_rw
    \/ free
    \/ final_loop
    \/ final_delay
    \/ blink_bit
    \/ blink_end
    \/ loop_delay
    \/ Reset

Spec == Init /\ [][Next]_vars

\* the steps main takes by itself: every call and every delay returns, and the
\* single core keeps executing main, so a step that can be taken is taken
Run ==
    \/ card_size
    \/ open_volume
    \/ open_root_dir
    \/ iterate_dir
    \/ open_ro
    \/ read
    \/ close_ro
    \/ open_rw
    \/ write
    \/ close_rw
    \/ free
    \/ final_loop
    \/ final_delay
    \/ blink_bit
    \/ blink_end
    \/ loop_delay

FairSpec == Init /\ [][Next]_vars /\ WF_vars(Run)

(* ---------- vocabulary of the properties ---------- *)

\* calls whose Err arm is blink_signals_loop, and calls that are unwrap()ped
LoopOps == {"num_bytes", "open_volume", "open_root_dir", "open_rw"}
PanicOps == {"iterate_dir", "read", "close_ro", "write", "close_rw"}

\* the six stages: card size, volume, root directory, listing, read, write
StageOfOp(op) ==
    CASE op = "num_bytes" -> 1
      [] op = "open_volume" -> 2
      [] op = "open_root_dir" -> 3
      [] op = "iterate_dir" -> 4
      [] op \in {"open_ro", "read", "close_ro"} -> 5
      [] op \in {"open_rw", "write", "close_rw", "free"} -> 6

\* position of main just before each call
PosOfOp(op) == IF op = "num_bytes" THEN "card_size" ELSE op
OpPositions == {PosOfOp(Ops[i]) : i \in DOMAIN Ops}
StageOfPos(p) == StageOfOp(IF p = "card_size" THEN "num_bytes" ELSE p)

InErrorLoop == lsig # <<>>
InFinalLoop == pc \in {"final", "final_delay"} \/ (pc = "blink" /\ ret = "final_delay")

\* the error-pattern table of the module documentation: short blinks per fault
DocShorts(op) ==
    CASE op = "num_bytes" -> 3
      [] op = "open_volume" -> 4
      [] op = "open_root_dir" -> 5
      [] op = "open_rw" -> 6

(* ---------- C1 ---------- *)

\* C1: the documented fault table holds in main: a failed card size query
\* loops on 3 short blinks, a failed open_volume on 4, a failed open_root_dir
\* on 5, a failed open of O.TST for writing on 6.
C1_DocumentedErrorPatterns ==
    pc = "loop_delay" =>
        \A op \in failed \cap LoopOps :
            /\ ShortCount(lastPattern) = DocShorts(op)
            /\ LongerCount(lastPattern) = 0

(* ---------- C2 ---------- *)

\* C2: every stage that completes is followed by exactly one long blink before
\* the next stage's first SD-card call: a call of stage k is made with k-1
\* long blinks shown, the blink between two stages is the k-th, and the final
\* loop is entered with six.
C2_OneLongBlinkPerStage ==
    /\ pc \in OpPositions => longCount = StageOfPos(pc) - 1
    /\ (pc = "blink" /\ ret \in OpPositions) =>
            /\ sig = BLINK_OK_LONG
            /\ longCount = StageOfPos(ret) - 2
    /\ (pc = "blink" /\ ret = "final") => longCount = 5
    /\ InFinalLoop => longCount = 6

C2_Witness ==
    /\ pc = "open_rw"
    /\ failed = {}
    /\ longCount = 5
    /\ lastPattern = <<<<1, 8>>>>

(* ---------- C3 ---------- *)

\* C3: a run in which every stage succeeds shows exactly 9 long blinks before
\* it enters the final loop.
C3_NineLongBlinks ==
    (pc = "final" /\ failed = {}) => longCount = 9

(* ---------- C4 ---------- *)

\* C4 as stated: every failed call is answered by a failure signal of its
\* stage (a blink loop), and no success blink is shown for that stage.
C4_EveryFailureSignalled ==
    \A op \in failed :
        /\ InErrorLoop
        /\ longCount < StageOfOp(op)

\* the signal main answers a failed call with
CodeErrSig(op) ==
    CASE op = "num_bytes" -> BLINK_ERR_2_SHORT
      [] op = "open_volume" -> BLINK_ERR_3_SHORT
      [] op = "open_root_dir" -> BLINK_ERR_4_SHORT
      [] op = "open_rw" -> BLINK_ERR_5_SHORT

\* C4 amended: a failed num_bytes, open_volume, open_root_dir or read-write
\* open is answered by the blink loop of its stage and never by that stage's
\* long blink; a failed iterate_dir, read, close_file or write halts main with
\* no failure signal and no long blink for its stage; a failed read-only open
\* is followed by the read stage's long blink all the same.
C4_FailureSignals ==
    /\ \A op \in failed \cap LoopOps :
            /\ lsig = CodeErrSig(op)
            /\ pc \in {"blink", "loop_delay"}
            /\ longCount = StageOfOp(op) - 1
    /\ \A op \in failed \cap PanicOps :
            /\ pc = "halted"
            /\ ~InErrorLoop
            /\ longCount = StageOfOp(op) - 1
    /\ ("open_ro" \in failed /\ "open_rw" \in Range(opLog)) => longCount >= 5

C4_Witness ==
    /\ "open_ro" \in failed
    /\ "write" \in failed
    /\ pc = "halted"

(* ---------- C5 ---------- *)

\* C5 as stated: after an error result of any call, control is kept by the
\* session: main neither halts nor enters a loop it never leaves.
C5_NoFaultStalls ==
    failed # {} => (pc # "halted" /\ ~InErrorLoop)

\* C5 amended: only a failed read-only open of O.TST lets the run continue (with
\* the write stage).  After a failed num_bytes, open_volume, open_root_dir or
\* read-write open main is in a blink loop, after a failed iterate_dir, read,
\* close_file or write it is halted, and in both cases the failed call is the
\* last SD-card call of the run.
C5_OnlyReadOpenRecovers ==
    /\ failed \subseteq {"open_ro"} => (pc # "halted" /\ ~InErrorLoop)
    /\ failed \cap LoopOps # {} => (InErrorLoop /\ pc \in {"blink", "loop_delay"})
    /\ failed \cap PanicOps # {} => pc = "halted"
    /\ \A i \in DOMAIN opLog :
            opLog[i] \in failed \ {"open_ro"} => i = Len(opLog)

C5_Witness ==
    /\ failed = {"open_ro"}
    /\ pc = "final_delay"

(* ---------- C6 ---------- *)

\* C6: once in the final loop main stays in it for the rest of the run and
\* repeats one pattern, short short long if successful_read and short long
\* otherwise; the flag and so the pattern never change, no long-only or error
\* pattern is shown, and no SD-card call is made any more.
C6_FinalLoopState ==
    InFinalLoop =>
        /\ ~InErrorLoop
        /\ pc = "blink" => sig = (IF successful_read
                                    THEN <<1, 0, 1, 0, 6, 0>> ELSE <<1, 0, 6, 0>>)
        /\ pc = "final_delay" =>
                lastPattern = (IF successful_read
                    THEN <<<<1, 1>>, <<0, 1>>, <<1, 1>>, <<0, 1>>, <<1, 6>>, <<0, 1>>>>
                    ELSE <<<<1, 1>>, <<0, 1>>, <<1, 6>>, <<0, 1>>>>)

C6_FinalLoopStep ==
    (InFinalLoop /\ run' = run) =>
        /\ InFinalLoop'
        /\ UNCHANGED <<successful_read, opLog, failed, longCount, lsig, file>>

C6_FinalLoopForever == []C6_FinalLoopState /\ [][C6_FinalLoopStep]_vars

C6_Witness ==
    /\ pc = "final_delay"
    /\ successful_read
    /\ ShortCount(lastPattern) = 2

(* ---------- C7 ---------- *)

\* the call whose failure put the run into its error loop (none: the final loop)
FatalOf(e) == e \cap LoopOps

\* C7: the patterns two runs end up repeating tell their outcomes apart: two
\* error loops entered for different failed calls differ in their number of
\* short pulses, an error loop and a final loop differ in their pattern, and
\* no looped error pattern is the long blink.
C7_DistinctSignals ==
    (pc \in {"loop_delay", "final_delay"} /\ prevPattern # <<>>) =>
        /\ (pc = "loop_delay") => (~IsLong(lastPattern) /\ LongerCount(lastPattern) = 0)
        /\ (FatalOf(failed) # FatalOf(prevFailed)) =>
                /\ lastPattern # prevPattern
                /\ (FatalOf(failed) # {} /\ FatalOf(prevFailed) # {}) =>
                        ShortCount(lastPattern) # ShortCount(prevPattern)

C7_Witness ==
    /\ pc = "loop_delay"
    /\ "open_volume" \in failed
    /\ "num_bytes" \in prevFailed
    /\ prevPattern # <<>>

(* ---------- C8 ---------- *)

\* C8: when the write stage of a run has completed, O.TST holds exactly
\* 0x42 0x1E whatever it held before; and a run that follows such a run and
\* meets no device fault opens the file, reads 2 bytes 0x42 0x1E, sets
\* successful_read and blinks short short long in the final loop.
C8_RoundTrip ==
    /\ WriteStageDone => file = [present |-> TRUE, data |-> <<66, 30>>]
    /\ (prevWrote /\ faults = {}) =>
            /\ failed = {}
            /\ "close_ro" \in Range(opLog) =>
                    /\ read_count = 2
                    /\ buf[1] = 66 /\ buf[2] = 30
                    /\ \A i \in 3..BufLen : buf[i] = 0
                    /\ successful_read
            /\ InFinalLoop => successful_read
            /\ pc = "final_delay" => (ShortCount(lastPattern) = 2
                                        /\ LongerCount(lastPattern) = 1)

C8_Witness ==
    /\ prevWrote
    /\ faults = {}
    /\ pc = "final_delay"
    /\ successful_read
    /\ read_count = 2

(* ---------- C9 ---------- *)

IndexOf(op) == CHOOSE i \in DOMAIN Ops : Ops[i] = op

\* C9: the calls of a run are made in program order, each at most once, a call
\* only after every earlier call succeeded (read and close only after a
\* successful read-only open, whose failure alone is passed over); and once
\* main is in an error blink loop no call is made and no long blink is shown.
C9_OrderState ==
    /\ \A i \in DOMAIN opLog : \A j \in DOMAIN opLog :
            i < j => IndexOf(opLog[i]) < IndexOf(opLog[j])
    /\ \A i \in DOMAIN opLog :
            /\ i < Len(opLog) => opLog[i] \notin failed \ {"open_ro"}
            /\ \A k \in 1..(IndexOf(opLog[i]) - 1) :
                    \/ Ops[k] \in Range(opLog)
                    \/ Ops[k] \in {"read", "close_ro"} /\ "open_ro" \in failed
    /\ "open_ro" \in failed => ~("read" \in Range(opLog) \/ "close_ro" \in Range(opLog))

C9_ErrorLoopStep ==
    (InErrorLoop /\ run' = run) =>
        /\ InErrorLoop'
        /\ UNCHANGED <<opLog, longCount, lsig, file>>

C9_FixedOrderNoRetry == []C9_OrderState /\ [][C9_ErrorLoopStep]_vars

C9_Witness ==
    /\ pc = "loop_delay"
    /\ opLog = <<"num_bytes", "open_volume", "open_root_dir", "iterate_dir",
                 "open_ro", "read", "close_ro", "open_rw">>
    /\ failed = {"open_rw"}

(* ---------- C10 ---------- *)

\* C10: a failed read-only open of O.TST is not fatal: no read and no close
\* follow it, successful_read stays false, the next call is the read-write
\* open, and when the write stage succeeds the run is in the final loop,
\* repeating short long, and in no error loop.
C10_ReadOpenFailureNotFatal ==
    "open_ro" \in failed =>
        /\ "read" \notin Range(opLog) /\ "close_ro" \notin Range(opLog)
        /\ roHandle = "none"
        /\ ~successful_read
        /\ failed = {"open_ro"} => (pc # "halted" /\ ~InErrorLoop)
        /\ Len(opLog) > 5 => opLog[6] = "open_rw"
        /\ pc \notin {"read", "close_ro"}
        /\ (WriteStageDone /\ "free" \in Range(opLog)) =>
                /\ ~InErrorLoop
                /\ pc # "halted"
                /\ pc = "final_delay" =>
                        lastPattern = <<<<1, 1>>, <<0, 1>>, <<1, 6>>, <<0, 1>>>>

C10_Witness ==
    /\ "open_ro" \in failed
    /\ WriteStageDone
    /\ pc = "final_delay"
    /\ ShortCount(lastPattern) = 1

(* ---------- C11 ---------- *)

\* C11: at most one handle on O.TST is open at any time: the read-only handle,
\* if it was opened, is closed before the read-write open is attempted, so
\* that open never fails for a handle still open (only for a device fault).
C11_OneHandleAtATime ==
    /\ ~(roHandle = "open" /\ rwHandle = "open")
    /\ pc = "open_rw" => roHandle # "open"
    /\ (pc = "blink" /\ ret = "open_rw") => roHandle # "open"
    /\ "open_rw" \in Range(opLog) => roHandle \in {"none", "closed"}
    /\ "open_rw" \in failed => "open_rw" \in faults
    /\ roHandle = "open" => "open_rw" \notin Range(opLog)

C11_Witness ==
    /\ roHandle = "closed"
    /\ rwHandle = "open"
    /\ pc = "write"

(* ---------- C12 ---------- *)

\* number of times call op was made in this run
Count(op) == Cardinality({i \in DOMAIN opLog : opLog[i] = op})

\* position of call op in the log of this run (0: not made)
At(op) == IF op \in Range(opLog) THEN CHOOSE i \in DOMAIN opLog : opLog[i] = op ELSE 0

\* C12 as stated: every handle main opens is closed, so main never comes to
\* rest with a handle still open.
C12_EveryHandleClosed ==
    pc \in {"halted", "final_delay", "loop_delay"} =>
        (roHandle # "open" /\ rwHandle # "open")

\* C12 amended: every handle main opens is closed at most once, and exactly
\* once unless read, close_file or write on it fails (main then halts with
\* the handle open); close_file is called only on a handle that was opened
\* and is open; and when free is reached no handle is open and the written
\* handle's size has been flushed.
C12_HandlesClosedOnce ==
    /\ Count("close_ro") <= 1 /\ Count("close_rw") <= 1
    /\ "close_ro" \in Range(opLog) =>
            (0 < At("open_ro") /\ At("open_ro") < At("close_ro") /\ "open_ro" \notin failed)
    /\ "close_rw" \in Range(opLog) =>
            (0 < At("open_rw") /\ At("open_rw") < At("close_rw") /\ "open_rw" \notin failed)
    /\ pc = "close_ro" => roHandle = "open"
    /\ pc = "close_rw" => rwHandle = "open"
    /\ roHandle = "closed" <=> ("close_ro" \in Range(opLog) /\ "close_ro" \notin failed)
    /\ rwHandle = "closed" <=> ("close_rw" \in Range(opLog) /\ "close_rw" \notin failed)
    /\ roHandle = "open" =>
            \/ pc \in {"read", "close_ro"}
            \/ pc = "halted" /\ failed \cap {"read", "close_ro"} # {}
    /\ rwHandle = "open" =>
            \/ pc \in {"write", "close_rw"}
            \/ pc = "halted" /\ failed \cap {"write", "close_rw"} # {}
    /\ (pc = "free" \/ "free" \in Range(opLog)) =>
            /\ roHandle # "open"
            /\ rwHandle = "closed"
            /\ pending = <<>>
            /\ Len(file.data) = 2

C12_Witness ==
    /\ pc = "final_delay"
    /\ roHandle = "closed"
    /\ rwHandle = "closed"
    /\ "free" \in Range(opLog)

(* ---------- C13 ---------- *)

\* the read stage of this run ran to its end (open, read and close returned Ok)
ReadStageDone == "close_ro" \in Range(opLog) /\ "close_ro" \notin failed

\* C13: in the final loop successful_read is true exactly if the read-only
\* open succeeded and the read returned at least 2 bytes of which the first
\* is 0x42 and the second 0x1E; a file shorter than 2 bytes, or with other
\* first two bytes, never sets the flag; and within a run the flag, once
\* set, is never cleared.
C13_FlagState ==
    /\ InFinalLoop =>
            (successful_read <=>
                /\ "open_ro" \in Range(opLog) /\ "open_ro" \notin failed
                /\ read_count >= 2
                /\ buf[1] = 66 /\ buf[2] = 30)
    /\ ~ReadStageDone => ~successful_read
    /\ (ReadStageDone /\ "open_rw" \notin Range(opLog)) =>
            (successful_read <=>
                /\ Len(file.data) >= 2
                /\ file.data[1] = 66 /\ file.data[2] = 30)

C13_FlagStep == (successful_read /\ run' = run) => successful_read'

C13_SuccessfulReadIff == []C13_FlagState /\ [][C13_FlagStep]_vars

C13_Witness ==
    /\ pc = "final_delay"
    /\ successful_read
    /\ read_count = 3
    /\ rwHandle = "closed"

(* ---------- C14 ---------- *)

ErrorSigs == {<<1, 0, 1, 0>>, <<1, 0, 1, 0, 1, 0>>, <<1, 0, 1, 0, 1, 0, 1, 0>>,
              <<1, 0, 1, 0, 1, 0, 1, 0, 1, 0>>}

\* C14: if every call returns and no unwrap fails, every run ends up in one
\* of five loops (one of the four error loops, or the final loop), in one
\* only, never leaves it before a reset, and the LED keeps being driven high
\* and low.
C14_LoopState ==
    /\ ~(InErrorLoop /\ InFinalLoop)
    /\ InErrorLoop => (lsig \in ErrorSigs /\ Cardinality(failed \cap LoopOps) = 1)
    /\ InFinalLoop => failed \cap (LoopOps \cup PanicOps) = {}

C14_LoopStep ==
    ((InErrorLoop \/ InFinalLoop) /\ run' = run) =>
        /\ lsig' = lsig
        /\ InErrorLoop' = InErrorLoop
        /\ InFinalLoop' = InFinalLoop

C14_Settles ==
    [](failed \cap PanicOps = {}) =>
        /\ <>[](InErrorLoop \/ InFinalLoop)
        /\ []<>(led_pin = 1)
        /\ []<>(led_pin = 0)

C14_EndsInOneLoop == C14_Settles /\ []C14_LoopState /\ [][C14_LoopStep]_vars

C14_Witness ==
    /\ pc = "blink"
    /\ lsig = <<1, 0, 1, 0, 1, 0, 1, 0>>
    /\ Len(pulses) = 1
    /\ led_pin = 1
    /\ Len(lastPattern) = 8

(* ---------- C15 ---------- *)

\* C15: the LED is low whenever blink_signals returns, whatever the last
\* element of its array, so the LED is low at every SD-card call of main and
\* in the pause of every loop, and is high only inside a blink_signals call.
C15_LowState ==
    /\ pc # "blink" => led_pin = 0
    /\ led_pin = 1 => (pc = "blink" /\ idx > 1 /\ sig[idx - 1] # 0)

C15_ReturnStep == (pc = "blink" /\ pc' # "blink") => led_pin' = 0

C15_LedLowOutsideBlink == []C15_LowState /\ [][C15_ReturnStep]_vars

C15_Witness ==
    /\ pc = "open_volume"
    /\ lastPattern = <<<<1, 8>>>>
    /\ led_pin = 0

====
